---- MODULE Spec2Model ----
(***************************************************************************)
(* Model of the conversation-section engine of llm-conversation-manager    *)
(* (src/src/utils/parser.js): detectSections, detectTopic,                 *)
(* mergeSimilarSections.                                                   *)
(*                                                                         *)
(* Strings are sequences of one-character strings, so that toLowerCase,    *)
(* includes, trim and the regular expressions of the source are computed   *)
(* character by character.  A timestamp is a number of milliseconds; 0     *)
(* stands for every falsy timestamp (absent, null, 0), which the source    *)
(* treats alike (message.timestamp || Date.now()).  The empty sequence     *)
(* stands for every falsy string (absent, null, '').                       *)
(***************************************************************************)
EXTENDS Integers, Sequences, FiniteSets, TLC

VARIABLES
    pc,              \* position of the caller: which call has returned
    messages,        \* detectSections: the messages argument, read so far
    options,         \* detectSections: the options argument (defaults filled)
    sections,        \* detectSections: const sections = []
    currentSection,  \* detectSections: let currentSection = null
    sectionId,       \* detectSections: let sectionId = 0
    clock,           \* the wall clock read by Date.now()
    heap,            \* section objects by reference, as the merger sees them
    input,           \* mergeSimilarSections: the sections argument (references)
    merged,          \* mergeSimilarSections: the returned array (references)
    threshold,       \* mergeSimilarSections: the threshold argument, in tenths
    before,          \* the caller's copy of the sections last passed in
    topicArg,        \* detectTopic: the content argument of the last call
    topicRet,        \* detectTopic: the value returned by the last call
    timestamps,      \* detectSections: the const timestamp of each iteration
    summary,         \* generateSectionSummary: the value returned by the last call
    text,            \* parseRawConversation: the text argument
    parseOptions,    \* parseRawConversation: the options argument (defaults filled)
    parsed,          \* parseRawConversation: the returned messages
    argKind,         \* the kind of value passed where an array is expected
    retKind,         \* the kind of value the last call returned
    config,          \* StorageManager: this.config
    chromeStorage,   \* what chrome.storage holds, per key
    inMemoryStorage, \* StorageManager: this._inMemoryStorage, per key
    memoryCache,     \* the module's memoryCache, per key
    call             \* StorageManager: the get or set in progress or returned last

vars == << pc, messages, options, sections, currentSection, sectionId, clock,
           heap, input, merged, threshold, before, topicArg, topicRet,
           timestamps, summary, text, parseOptions, parsed, argKind, retKind,
           config, chromeStorage, inMemoryStorage, memoryCache, call >>

detectVars == << messages, options, sections, currentSection, sectionId, clock,
                 timestamps >>
mergeVars == << heap, input, merged, threshold, before >>
topicVars == << topicArg, topicRet >>
summaryVars == << summary >>
parseVars == << text, parseOptions, parsed >>
callVars == << argKind, retKind >>
storageVars == << config, chromeStorage, inMemoryStorage, memoryCache, call >>
restVars == << summaryVars, parseVars, callVars, storageVars >>

----------------------------------------------------------------------------
(* Bounds of the model *)

MaxMsgs == 3
MaxWords == 2
MaxSections == 3
MaxRunMsgs == 5
MaxSegments == 3
MaxCalls == 2

----------------------------------------------------------------------------
(* Strings *)

Null == <<>>

Range(f) == { f[x] : x \in DOMAIN f }

WhiteSpace == { " ", "\t", "\n", "\r" }
LineTerminator == { "\n", "\r" }

toLowerCaseChar(c) ==
    CASE c = "A" -> "a" [] c = "B" -> "b" [] c = "C" -> "c" [] c = "D" -> "d"
      [] c = "E" -> "e" [] c = "F" -> "f" [] c = "G" -> "g" [] c = "H" -> "h"
      [] c = "I" -> "i" [] c = "J" -> "j" [] c = "K" -> "k" [] c = "L" -> "l"
      [] c = "M" -> "m" [] c = "N" -> "n" [] c = "O" -> "o" [] c = "P" -> "p"
      [] c = "Q" -> "q" [] c = "R" -> "r" [] c = "S" -> "s" [] c = "T" -> "t"
      [] c = "U" -> "u" [] c = "V" -> "v" [] c = "W" -> "w" [] c = "X" -> "x"
      [] c = "Y" -> "y" [] c = "Z" -> "z" [] OTHER -> c

toLowerCase(s) == [ k \in 1..Len(s) |-> toLowerCaseChar(s[k]) ]

\* String.prototype.includes: sub occurs in s as a contiguous substring
includes(s, sub) ==
    \E k \in 0..(Len(s) - Len(sub)) : SubSeq(s, k + 1, k + Len(sub)) = sub

\* String.prototype.trim
trim(s) ==
    LET keep == { k \in 1..Len(s) : s[k] \notin WhiteSpace }
    IN  IF keep = {} THEN <<>>
        ELSE SubSeq(s, CHOOSE a \in keep : \A b \in keep : a <= b,
                       CHOOSE a \in keep : \A b \in keep : a >= b)

\* Array.prototype.join(' ') of a list of words
RECURSIVE JoinWords(_)
JoinWords(ws) ==
    IF Len(ws) = 0 THEN <<>>
    ELSE IF Len(ws) = 1 THEN ws[1]
    ELSE ws[1] \o <<" ">> \o JoinWords(Tail(ws))

\* Number to decimal string, as template-literal interpolation does
RECURSIVE Decimal(_)
Decimal(n) ==
    LET digit == << "0", "1", "2", "3", "4", "5", "6", "7", "8", "9" >>
    IN  IF n < 10 THEN << digit[n + 1] >>
        ELSE Decimal(n \div 10) \o << digit[(n % 10) + 1] >>

----------------------------------------------------------------------------
(* detectTopic: keyword-frequency scoring *)

TopicOrder == << "technical", "question", "discussion", "planning", "feedback" >>

TopicKeywords ==
    [ technical |->
        << <<"c","o","d","e">>, <<"b","u","g">>, <<"e","r","r","o","r">>,
           <<"f","u","n","c","t","i","o","n">>,
           <<"v","a","r","i","a","b","l","e">>, <<"d","e","b","u","g">>,
           <<"i","m","p","l","e","m","e","n","t">>,
           <<"d","e","p","l","o","y">> >>,
      question |->
        << <<"w","h","a","t">>, <<"h","o","w">>, <<"w","h","y">>,
           <<"w","h","e","n">>, <<"w","h","e","r","e">>, <<"?">> >>,
      discussion |->
        << <<"t","h","i","n","k">>, <<"o","p","i","n","i","o","n">>,
           <<"d","i","s","c","u","s","s">>,
           <<"c","o","n","s","i","d","e","r">>,
           <<"s","u","g","g","e","s","t">>, <<"p","r","o","p","o","s","e">> >>,
      planning |->
        << <<"p","l","a","n">>, <<"s","c","h","e","d","u","l","e">>,
           <<"d","e","a","d","l","i","n","e">>,
           <<"m","i","l","e","s","t","o","n","e">>,
           <<"t","i","m","e","l","i","n","e">>, <<"s","p","r","i","n","t">> >>,
      feedback |->
        << <<"f","e","e","d","b","a","c","k">>, <<"r","e","v","i","e","w">>,
           <<"c","o","m","m","e","n","t">>,
           <<"s","u","g","g","e","s","t","i","o","n">>,
           <<"i","m","p","r","o","v","e">>, <<"b","e","t","t","e","r">> >> ]

\* keywords.filter((keyword) => lowerContent.includes(keyword)).length
KeywordScore(lowerContent, topic) ==
    LET keywords == TopicKeywords[topic]
    IN  Cardinality({ k \in 1..Len(keywords) : includes(lowerContent, keywords[k]) })

\* TopicLoop with a fault: a later topic with an equal score replaces the earlier
RECURSIVE TopicLoopLaterTieWins(_, _, _, _)
TopicLoopLaterTieWins(lowerContent, k, maxScore, detectedTopic) ==
    IF k > Len(TopicOrder) THEN detectedTopic
    ELSE LET score == KeywordScore(lowerContent, TopicOrder[k])
         IN  IF score >= maxScore
             THEN TopicLoopLaterTieWins(lowerContent, k + 1, score, TopicOrder[k])
             ELSE TopicLoopLaterTieWins(lowerContent, k + 1, maxScore, detectedTopic)

\* the for..of loop of detectTopic over Object.entries(topics), from entry k
RECURSIVE TopicLoop(_, _, _, _)
TopicLoop(lowerContent, k, maxScore, detectedTopic) ==
    IF k > Len(TopicOrder) THEN detectedTopic
    ELSE LET score == KeywordScore(lowerContent, TopicOrder[k])
         IN  IF score > maxScore
             THEN TopicLoop(lowerContent, k + 1, score, TopicOrder[k])
             ELSE TopicLoop(lowerContent, k + 1, maxScore, detectedTopic)

detectTopic(content) ==
    IF content = Null THEN "general"
    ELSE TopicLoop(toLowerCase(content), 1, 0, "general")

----------------------------------------------------------------------------
(* extractTitle *)

\* index of the last character of the line that holds position g
EndOfLine(s, g) ==
    LET stops == { k \in g..Len(s) : s[k] \in LineTerminator }
    IN  IF stops = {} THEN Len(s)
        ELSE (CHOOSE a \in stops : \A b \in stops : a <= b) - 1

\* length of the longest run of characters of Sep that starts at position p
SepRun(s, p, Sep) ==
    LET ends == { k \in p..(Len(s) + 1) : k > Len(s) \/ s[k] \notin Sep }
    IN  (CHOOSE a \in ends : \A b \in ends : a <= b) - p

\* The tail  Sep+(.+?)$  of both title patterns, matched from position p:
\* the greedy run of separators gives back characters until one character
\* that is not a line terminator is left for the group; the lazy group then
\* runs to the end of its line.  The set of admissible run lengths.
TailRuns(s, p, Sep) ==
    { w \in 1..SepRun(s, p, Sep) :
        p + w <= Len(s) /\ s[p + w] \notin LineTerminator }

TailGroup(s, p, Sep) ==
    LET runs == TailRuns(s, p, Sep)
        w == CHOOSE a \in runs : \A b \in runs : a >= b
    IN  SubSeq(s, p + w, EndOfLine(s, p + w))

\* /^#+\s+(.+?)$/m matches at position p
HeaderMatchAt(s, p) ==
    /\ p = 1 \/ s[p - 1] \in LineTerminator
    /\ SepRun(s, p, {"#"}) >= 1
    /\ TailRuns(s, p + SepRun(s, p, {"#"}), WhiteSpace) # {}

TitleWords ==
    << <<"s","e","c","t","i","o","n">>, <<"t","o","p","i","c">>,
       <<"d","i","s","c","u","s","s">> >>

\* the alternative of (?:section|topic|discuss) that matches at p, or 0
TitleWordAt(s, p) ==
    LET hits == { k \in 1..Len(TitleWords) :
                    /\ p + Len(TitleWords[k]) - 1 <= Len(s)
                    /\ toLowerCase(SubSeq(s, p, p + Len(TitleWords[k]) - 1))
                         = TitleWords[k] }
    IN  IF hits = {} THEN 0 ELSE CHOOSE a \in hits : \A b \in hits : a <= b

\* /(?:section|topic|discuss)[\s:]+(.+?)$/im matches at position p
SectionMatchAt(s, p) ==
    /\ TitleWordAt(s, p) # 0
    /\ TailRuns(s, p + Len(TitleWords[TitleWordAt(s, p)]),
                WhiteSpace \cup {":"}) # {}

\* content.split('\n')[0]
FirstLine(s) ==
    LET stops == { k \in 1..Len(s) : s[k] = "\n" }
    IN  IF stops = {} THEN s
        ELSE SubSeq(s, 1, (CHOOSE a \in stops : \A b \in stops : a <= b) - 1)

\* Returns Null both where the source returns null and where it returns '':
\* the only caller tests the result with ||.
extractTitle(content) ==
    LET headers == { p \in 1..Len(content) : HeaderMatchAt(content, p) }
        marks == { p \in 1..Len(content) : SectionMatchAt(content, p) }
    IN  IF content = Null THEN Null
        ELSE IF headers # {}
        THEN LET p == CHOOSE a \in headers : \A b \in headers : a <= b
             IN  trim(TailGroup(content, p + SepRun(content, p, {"#"}), WhiteSpace))
        ELSE IF marks # {}
        THEN LET p == CHOOSE a \in marks : \A b \in marks : a <= b
             IN  trim(TailGroup(content, p + Len(TitleWords[TitleWordAt(content, p)]),
                                WhiteSpace \cup {":"}))
        ELSE IF Len(trim(FirstLine(content))) < 100
        THEN trim(FirstLine(content))
        ELSE Null

\* SectionLabel with a fault: the number is the section's id
SectionLabelOfId(n) == <<"S","e","c","t","i","o","n"," ">> \o Decimal(n - 1)

\* `Section ${sectionId}`
SectionLabel(n) == <<"S","e","c","t","i","o","n"," ">> \o Decimal(n)

----------------------------------------------------------------------------
(* Inputs *)

DefaultMarkers ==
    << <<"s","e","c","t","i","o","n",":">>, <<"t","o","p","i","c",":">>,
       <<"d","i","s","c","u","s","s",":">>,
       <<"n","e","w"," ","t","o","p","i","c">>,
       <<"-","-","-">>, <<"=","=","=">> >>

DefaultTimeGap == 30

MsPerMinute == 60000

\* the options a caller passes: the defaults, topic detection switched off,
\* and a one-minute gap with one marker of its own, written in upper case
OptionsPool ==
    { [ timeGap |-> DefaultTimeGap, sectionMarkers |-> DefaultMarkers,
        detectTopicChanges |-> TRUE ],
      [ timeGap |-> DefaultTimeGap, sectionMarkers |-> DefaultMarkers,
        detectTopicChanges |-> FALSE ],
      [ timeGap |-> 1, sectionMarkers |-> << <<"N","E","X","T">> >>,
        detectTopicChanges |-> TRUE ] }

\* message contents: empty, technical, question (upper case), and a text
\* with no keyword that holds a default marker in mixed case and the caller's
\* marker in lower case
ContentPool ==
    { Null,
      <<"b","u","g">>,
      <<"W","h","y">>,
      <<"T","o","p","i","c",":"," ","n","e","x","t">> }

\* the earliest timestamp a message carries: one second after the epoch
BaseTime == MsPerMinute \div 60

\* message timestamps: falsy; a base; exactly DefaultTimeGap minutes after
\* the base; one millisecond more
TimestampPool ==
    { 0, BaseTime, BaseTime + DefaultTimeGap * MsPerMinute,
      BaseTime + DefaultTimeGap * MsPerMinute + 1 }

\* values Date.now() returns: within the gap after the latest timestamp of
\* TimestampPool, and one millisecond more than the gap after its last but one
NowPool ==
    { BaseTime + DefaultTimeGap * MsPerMinute + 2,
      BaseTime + 2 * DefaultTimeGap * MsPerMinute + 1 }

\* thresholds in tenths: 0, the default 0.7, 1.0 and 1.1
DefaultThreshold == 7

ThresholdPool == { 0, DefaultThreshold, 10, 11 }

\* the default options of parseRawConversation, lines 216-218; the default
\* authorPattern is the only pattern the model matches
DefaultParseOptions ==
    [ delimiter |-> << "\n", "\n" >>, authorPattern |-> "default",
      preserveFormatting |-> TRUE ]

\* no summary has been returned
NoSummary == [ totalSections |-> -1 ]

FirstNow == CHOOSE a \in NowPool : \A b \in NowPool : a <= b

Alice == <<"A","l","i","c","e">>
Bob == <<"B","o","b">>
Carol == <<"C","a","r","o","l">>

AuthorPool == { Null }
UserPool == { Null }

----------------------------------------------------------------------------
(* The pure functions of the contents, tabulated once over the inputs: the   *)
(* operations below look a content up where the source calls the function.  *)

TopicOf == [ c \in ContentPool |-> detectTopic(c) ]

TitleOf == [ c \in ContentPool |-> extractTitle(c) ]

----------------------------------------------------------------------------
(* Helpers of detectSections *)

\* isTimedOut with a fault: a gap of exactly gapMinutes already times out
isTimedOutInclusive(lastTime, currentTime, gapMinutes) ==
    (currentTime - lastTime) >= gapMinutes * MsPerMinute

\* (currentTime - lastTime) / (1000 * 60) > gapMinutes, both sides multiplied
\* by 60000 so that the comparison stays in the integers
isTimedOut(lastTime, currentTime, gapMinutes) ==
    (currentTime - lastTime) > gapMinutes * MsPerMinute

\* hasSectionMarker with a fault: the content is compared as written
hasSectionMarkerCaseSensitive(content, markers) ==
    IF content = Null THEN FALSE
    ELSE \E k \in 1..Len(markers) : includes(content, toLowerCase(markers[k]))

hasSectionMarker(content, markers) ==
    IF content = Null THEN FALSE
    ELSE LET lowerContent == toLowerCase(content)
         IN  \E k \in 1..Len(markers) :
                includes(lowerContent, toLowerCase(markers[k]))

\* hasTopicChange with a fault: the label 'general' counts as no topic
hasTopicChangeGeneralIsNone(prevMessage, currentMessage) ==
    LET prevTopic == TopicOf[prevMessage.content]
        currentTopic == TopicOf[currentMessage.content]
    IN  prevTopic # currentTopic /\ prevTopic # "general" /\ currentTopic # "general"

\* content || '' is the content itself: Null stands for every falsy string.
\* A topic label is never the empty string, so prevTopic && currentTopic holds.
hasTopicChange(prevMessage, currentMessage) ==
    LET prevTopic == TopicOf[prevMessage.content]
        currentTopic == TopicOf[currentMessage.content]
    IN  prevTopic # currentTopic /\ prevTopic # "" /\ currentTopic # ""

\* hasSectionMarker tabulated over the inputs
MarkerIn ==
    [ o \in OptionsPool |->
        [ c \in ContentPool |-> hasSectionMarker(c, o.sectionMarkers) ] ]

\* Set.prototype.add on an insertion-ordered set
\* SetAdd with a fault: the value is added even when present
SetAddAgain(list, x) == Append(list, x)

SetAdd(list, x) == IF x \in Range(list) THEN list ELSE Append(list, x)

RECURSIVE extractParticipants(_)
extractParticipants(msgs) ==
    IF msgs = <<>> THEN <<>>
    ELSE LET rest == extractParticipants(SubSeq(msgs, 1, Len(msgs) - 1))
             msg == msgs[Len(msgs)]
             withAuthor == IF msg.author # Null THEN SetAdd(rest, msg.author) ELSE rest
         IN  IF msg.user # Null THEN SetAdd(withAuthor, msg.user) ELSE withAuthor

----------------------------------------------------------------------------
(* detectSections *)

\* NewSection with a fault: startTime is the message's own timestamp field
NewSectionRawStart(id, message, timestamp) ==
    [ id |-> id,
      title |-> IF TitleOf[message.content] # Null
                THEN TitleOf[message.content] ELSE SectionLabel(id + 1),
      messages |-> << message >>,
      startTime |-> message.timestamp,
      endTime |-> timestamp,
      topic |-> TopicOf[message.content],
      participants |-> extractParticipants(<< message >>) ]

\* the object literal of lines 60-68; id is the value of sectionId before the
\* increment, the title reads it after the increment
NewSection(id, message, timestamp) ==
    [ id |-> id,
      title |-> IF TitleOf[message.content] # Null
                THEN TitleOf[message.content] ELSE SectionLabel(id + 1),
      messages |-> << message >>,
      startTime |-> timestamp,
      endTime |-> timestamp,
      topic |-> TopicOf[message.content],
      participants |-> extractParticipants(<< message >>) ]

\* ContinueSection with a fault: the timestamp is stored as the start time
ContinueSectionSetsStart(section, message, timestamp) ==
    [ section EXCEPT !.messages = Append(@, message),
                     !.startTime = timestamp,
                     !.participants = extractParticipants(Append(section.messages, message)) ]

\* ContinueSection with a fault: the topic follows the appended message
ContinueSectionRetopics(section, message, timestamp) ==
    [ section EXCEPT !.messages = Append(@, message),
                     !.endTime = timestamp,
                     !.topic = TopicOf[message.content],
                     !.participants = extractParticipants(Append(section.messages, message)) ]

\* ContinueSection with a fault: the end time is left as it is
ContinueSectionKeepsEnd(section, message, timestamp) ==
    [ section EXCEPT !.messages = Append(@, message),
                     !.participants = extractParticipants(Append(section.messages, message)) ]

\* the else branch, lines 70-73
ContinueSection(section, message, timestamp) ==
    [ section EXCEPT !.messages = Append(@, message),
                     !.endTime = timestamp,
                     !.participants = extractParticipants(Append(section.messages, message)) ]

\* PushSection with a fault: the open section is not saved
PushSectionDropped(secs, current) == secs

\* if (currentSection) sections.push(currentSection), lines 55-57 and 78-80
PushSection(secs, current) ==
    IF current # <<>> THEN Append(secs, current[1]) ELSE secs

\* lines 47-51; i is the 0-based index of message
\* shouldNewSection with a fault: the topics are not looked at
shouldNewSectionNoTopic(current, i, message, timestamp) ==
    \/ current = <<>>
    \/ isTimedOut(current[1].endTime, timestamp, options.timeGap)
    \/ MarkerIn[options][message.content]

shouldNewSection(current, i, message, timestamp) ==
    \/ current = <<>>
    \/ isTimedOut(current[1].endTime, timestamp, options.timeGap)
    \/ MarkerIn[options][message.content]
    \/ (options.detectTopicChanges /\ i > 0 /\ hasTopicChange(messages[i], message))

\* no call of detectSections has begun
DetectIdle ==
    /\ messages = <<>>
    /\ sections = <<>>
    /\ currentSection = <<>>
    /\ sectionId = 0
    /\ clock = FirstNow
    /\ timestamps = <<>>

\* no call of mergeSimilarSections has begun and the caller holds no sections
MergeIdle ==
    /\ heap = <<>>
    /\ input = <<>>
    /\ merged = <<>>
    /\ threshold = DefaultThreshold
    /\ before = <<>>

\* no call of detectTopic has returned
TopicIdle ==
    /\ topicArg = Null
    /\ topicRet = ""

\* DEFAULT_CONFIG; chrome tells whether chrome.storage exists
DefaultConfig ==
    [ chrome |-> TRUE, enableCache |-> TRUE, cacheTTL |-> 3600000,
      maxRetries |-> 3, retryDelay |-> 100 ]

Keys == { "a", "b" }
Absent == "undefined"

\* no entry under any key
EmptyStore == [ k \in Keys |-> Absent ]
EmptyCache == [ k \in Keys |-> [ value |-> Absent, timestamp |-> 0 ] ]

\* no get or set has been called.  attempt is the loop variable of
\* _retryOperation, invoked counts the calls of operation, waits lists the
\* delays of the timers set, lastError is the attempt that rejected last (-1
\* for undefined), retry tells how the promise of _retryOperation has settled,
\* previous holds the call before, seq counts the calls
NoCall ==
    [ op |-> "none", arg |-> << >>, attempt |-> 0, invoked |-> 0, waits |-> << >>,
      lastError |-> -1, retry |-> "none", outcome |-> "none", result |-> << >>,
      thrown |-> -1, previous |-> << >>, seq |-> 0 ]

\* a new StorageManager with an empty store, and nothing cached
StorageIdle ==
    /\ config = DefaultConfig
    /\ chromeStorage = EmptyStore
    /\ inMemoryStorage = EmptyStore
    /\ memoryCache = EmptyCache
    /\ call = NoCall

\* no call of generateSectionSummary or parseRawConversation has begun, and
\* every argument passed where an array is expected is an array
RestIdle ==
    /\ StorageIdle
    /\ summary = NoSummary
    /\ text = Null
    /\ parseOptions = DefaultParseOptions
    /\ parsed = <<>>
    /\ argKind = "array"
    /\ retKind = "none"

InitDetect ==
    /\ pc = "start"
    /\ options \in OptionsPool
    /\ DetectIdle
    /\ MergeIdle
    /\ TopicIdle
    /\ RestIdle

\* if (!Array.isArray(messages) || messages.length === 0) return [], line 34
DetectEmpty ==
    /\ pc = "start"
    /\ pc' = "detected"
    /\ UNCHANGED << detectVars, mergeVars, topicVars, restVars >>

\* One iteration of the for loop, lines 42-75.  The loop reads messages[i - 1]
\* and messages[i] only, so the argument is read one message at a time; the
\* message at index i is drawn here and the array ends where DetectReturn fires.
DetectStepFrom(contents, stamps, authors, users, max) ==
    /\ pc \in { "start", "loop" }
    /\ Len(messages) < max
    /\ \E content \in contents, ts \in stamps,
          author \in authors, user \in users, now \in NowPool :
         LET i == Len(messages)
             message == [ id |-> i, timestamp |-> ts, content |-> content,
                          author |-> author, user |-> user ]
             timestamp == IF ts # 0 THEN ts ELSE now
         IN  /\ IF ts # 0 THEN now = clock ELSE now >= clock
             /\ clock' = now
             /\ messages' = Append(messages, message)
             /\ timestamps' = Append(timestamps, timestamp)
             /\ IF shouldNewSection(currentSection, i, message, timestamp)
                THEN /\ sections' = PushSection(sections, currentSection)
                     /\ currentSection' = << NewSection(sectionId, message, timestamp) >>
                     /\ sectionId' = sectionId + 1
                ELSE /\ currentSection' =
                          << ContinueSection(currentSection[1], message, timestamp) >>
                     /\ UNCHANGED << sections, sectionId >>
    /\ pc' = "loop"
    /\ UNCHANGED << options, mergeVars, topicVars, restVars >>

DetectStep == DetectStepFrom(ContentPool, TimestampPool, AuthorPool, UserPool, MaxMsgs)

\* the end of the array is reached: lines 77-82
DetectReturn ==
    /\ pc = "loop"
    /\ sections' = PushSection(sections, currentSection)
    /\ pc' = "detected"
    /\ UNCHANGED << messages, options, currentSection, sectionId, clock,
                    timestamps, mergeVars, topicVars, restVars >>

NextDetect == DetectEmpty \/ DetectStep \/ DetectReturn

Spec == InitDetect /\ [][NextDetect]_vars

----------------------------------------------------------------------------
(* detectTopic called on its own *)

Words ==
    { <<"b","u","g">>, <<"d","e","b","u","g">>, <<"W","h","y">>,
      <<"s","h","o","w">>, <<"t","h","i","n","k">>, <<"p","l","a","n">>,
      <<"R","e","v","i","e","w">>, <<"s","u","g","g","e","s","t","i","o","n">>,
      <<"h","i">>, <<"?">> }

WordLists == UNION { [ 1..n -> Words ] : n \in 0..MaxWords }

InitTopic ==
    /\ pc = "start"
    /\ options \in { o \in OptionsPool : o.timeGap = DefaultTimeGap /\ o.detectTopicChanges }
    /\ DetectIdle
    /\ MergeIdle
    /\ TopicIdle
    /\ RestIdle

Classify ==
    /\ pc = "start"
    /\ \E ws \in WordLists :
         /\ topicArg' = JoinWords(ws)
         /\ topicRet' = detectTopic(JoinWords(ws))
    /\ pc' = "classified"
    /\ UNCHANGED << detectVars, mergeVars, restVars >>

NextTopic == Classify

SpecTopic == InitTopic /\ [][NextTopic]_vars

----------------------------------------------------------------------------
(* mergeSimilarSections *)

\* Array.from(new Set([...a, ...b]))
RECURSIVE SetUnion(_, _)
SetUnion(a, b) ==
    IF b = <<>> THEN a ELSE SetUnion(SetAdd(a, Head(b)), Tail(b))

\* Fuse with a fault: the absorbed messages are put in front
FuseInFront(lastSection, current) ==
    [ lastSection EXCEPT
        !.messages = current.messages \o @,
        !.endTime = current.endTime,
        !.participants = SetUnion(SetUnion(<<>>, lastSection.participants),
                                  current.participants) ]

\* Fuse with a fault: the end time of the accumulated section stays
FuseKeepsEnd(lastSection, current) ==
    [ lastSection EXCEPT
        !.messages = @ \o current.messages,
        !.participants = SetUnion(SetUnion(<<>>, lastSection.participants),
                                  current.participants) ]

\* lines 269-273: the accumulated section absorbs the current one
Fuse(lastSection, current) ==
    [ lastSection EXCEPT
        !.messages = @ \o current.messages,
        !.endTime = current.endTime,
        !.participants = SetUnion(SetUnion(<<>>, lastSection.participants),
                                  current.participants) ]

\* LastOf with a fault: every section is compared with the first accumulated one
FirstOf(refs) == refs[1]

\* merged[merged.length - 1]
LastOf(refs) == refs[Len(refs)]

\* AfterFuse with a fault: the absorbed section is pushed as well
AfterFusePushes(refs, current) == Append(refs, current)

\* the merged array after the if branch: nothing is pushed
AfterFuse(refs, current) == refs

\* The for loop of lines 259-277 from index i (1-based) on.  h maps each
\* reference to its section object, refs is the merged array; similarity and
\* the threshold are in tenths.
\* Reaches with a fault: the threshold has to be exceeded
ReachesStrictly(similarity, thr) == similarity > thr

\* similarity >= threshold
Reaches(similarity, thr) == similarity >= thr

RECURSIVE MergeLoop(_, _, _, _, _)
MergeLoop(h, arg, i, refs, thr) ==
    IF i > Len(arg) THEN [ heap |-> h, merged |-> refs ]
    ELSE LET lastSection == LastOf(refs)
             current == arg[i]
             similarity == IF h[lastSection].topic = h[current].topic THEN 10 ELSE 0
         IN  IF Reaches(similarity, thr)
             THEN MergeLoop([ h EXCEPT ![lastSection] = Fuse(h[lastSection], h[current]) ],
                            arg, i + 1, AfterFuse(refs, current), thr)
             ELSE MergeLoop(h, arg, i + 1, Append(refs, current), thr)

\* the heap and the returned array after mergeSimilarSections(arg, thr)
mergeSimilarSections(h, arg, thr) ==
    IF Len(arg) < 2 THEN [ heap |-> h, merged |-> arg ]
    ELSE MergeLoop(h, arg, 2, << arg[1] >>, thr)

\* the section objects an array of references holds
View(h, refs) == [ k \in 1..Len(refs) |-> h[refs[k]] ]

\* the sections a caller builds: section k of the list holds n messages of
\* its own, starts at start and ends n - 1 milliseconds later
BuiltSection(k, topic, n, parts, start) ==
    [ id |-> k - 1,
      title |-> SectionLabel(k),
      messages |-> [ j \in 1..n |->
                       [ id |-> 10 * k + j, timestamp |-> start + j - 1,
                         content |-> Null, author |-> parts[1], user |-> Null ] ],
      startTime |-> start,
      endTime |-> start + n - 1,
      topic |-> topic,
      participants |-> parts ]

BuiltPool(k) ==
    { BuiltSection(k, topic, n, parts, start) :
        topic \in { "technical", "question" },
        n \in { 1, 2 },
        parts \in { << <<"a","l","i","c","e">> >>,
                    << <<"b","o","b">>, <<"a","l","i","c","e">> >> },
        start \in { BaseTime, BaseTime + 5 } }

InitMerge ==
    /\ pc = "sections"
    /\ options \in { o \in OptionsPool : o.timeGap = DefaultTimeGap /\ o.detectTopicChanges }
    /\ DetectIdle
    /\ TopicIdle
    /\ RestIdle
    /\ heap = <<>>
    /\ input = <<>>
    /\ merged = <<>>
    /\ threshold \in ThresholdPool
    /\ before = <<>>

\* the caller adds one more section object to the list it will pass
Build ==
    /\ pc = "sections"
    /\ Len(heap) < MaxSections
    /\ \E s \in BuiltPool(Len(heap) + 1) :
         /\ heap' = Append(heap, s)
         /\ input' = Append(input, Len(heap) + 1)
    /\ UNCHANGED << pc, merged, threshold, before, detectVars, topicVars, restVars >>

\* the caller passes its sections to mergeSimilarSections
Merge ==
    /\ pc = "sections"
    /\ LET r == mergeSimilarSections(heap, input, threshold)
       IN  /\ heap' = r.heap
           /\ merged' = r.merged
    /\ before' = View(heap, input)
    /\ pc' = "merged"
    /\ UNCHANGED << input, threshold, detectVars, topicVars, restVars >>

\* the caller passes the returned array to mergeSimilarSections again
MergeAgain ==
    /\ pc = "merged"
    /\ LET r == mergeSimilarSections(heap, merged, threshold)
       IN  /\ heap' = r.heap
           /\ merged' = r.merged
    /\ input' = merged
    /\ before' = View(heap, merged)
    /\ pc' = "remerged"
    /\ UNCHANGED << threshold, detectVars, topicVars, restVars >>

NextMerge == Build \/ Merge \/ MergeAgain

SpecMerge == InitMerge /\ [][NextMerge]_vars

----------------------------------------------------------------------------
(* generateSectionSummary *)

\* Math.round(num / den) for den > 0: the nearest integer, halves upwards
Round(num, den) == (2 * num + den) \div (2 * den)

\* toFixed2 with a fault: the digits after the second are cut off
toFixed2Truncates(num, den) ==
    LET digit == <<"0","1","2","3","4","5","6","7","8","9">>
        abs == IF num < 0 THEN 0 - num ELSE num
        n == (100 * abs) \div den
    IN  (IF num < 0 THEN <<"-">> ELSE <<>>) \o Decimal(n \div 100) \o <<".">>
          \o << digit[((n \div 10) % 10) + 1], digit[(n % 10) + 1] >>

\* (num / den).toFixed(2) for den > 0.  Exact unless 100 * num / den is an
\* odd multiple of 1/2 that binary floating point cannot represent; no
\* quotient the model forms is one.
toFixed2(num, den) ==
    LET digit == << "0", "1", "2", "3", "4", "5", "6", "7", "8", "9" >>
        abs == IF num < 0 THEN 0 - num ELSE num
        n == (200 * abs + den) \div (2 * den)
    IN  (IF num < 0 THEN << "-" >> ELSE << >>)
          \o Decimal(n \div 100) \o << "." >>
          \o << digit[((n \div 10) % 10) + 1], digit[(n % 10) + 1] >>

\* the keys of topicCounts in insertion order: the topics as first seen
RECURSIVE TopicKeys(_)
TopicKeys(secs) ==
    IF secs = <<>> THEN <<>>
    ELSE SetAdd(TopicKeys(SubSeq(secs, 1, Len(secs) - 1)), secs[Len(secs)].topic)

\* Object.entries(topicCounts).map(([topic, count]) => ({ topic, count }))
TopicEntries(secs) ==
    LET keys == TopicKeys(secs)
    IN  [ k \in 1..Len(keys) |->
            [ topic |-> keys[k],
              count |-> Cardinality({ j \in 1..Len(secs) : secs[j].topic = keys[k] }) ] ]

\* InsertByCount with a fault: the entry goes in front of its equals
InsertByCountInFront(sorted, e) ==
    LET ahead == { k \in 1..Len(sorted) : sorted[k].count > e.count }
        n == Cardinality(ahead)
    IN  SubSeq(sorted, 1, n) \o << e >> \o SubSeq(sorted, n + 1, Len(sorted))

\* one entry put into a list sorted by (a, b) => b.count - a.count, behind
\* the entries it does not beat: Array.prototype.sort is stable
InsertByCount(sorted, e) ==
    LET ahead == { k \in 1..Len(sorted) : sorted[k].count >= e.count }
        n == Cardinality(ahead)
    IN  SubSeq(sorted, 1, n) \o << e >> \o SubSeq(sorted, n + 1, Len(sorted))

RECURSIVE SortByCount(_)
SortByCount(entries) ==
    IF entries = <<>> THEN <<>>
    ELSE InsertByCount(SortByCount(SubSeq(entries, 1, Len(entries) - 1)),
                       entries[Len(entries)])

\* sections.forEach: section.participants.forEach((p) => allParticipants.add(p))
RECURSIVE AllParticipants(_)
AllParticipants(secs) ==
    IF secs = <<>> THEN <<>>
    ELSE SetUnion(AllParticipants(SubSeq(secs, 1, Len(secs) - 1)),
                  secs[Len(secs)].participants)

\* TotalMessages with a fault: the first section is counted for all
TotalMessagesOfFirst(secs) == Len(secs) * Len(secs[1].messages)

RECURSIVE TotalMessages(_)
TotalMessages(secs) ==
    IF secs = <<>> THEN 0
    ELSE TotalMessages(Tail(secs)) + Len(Head(secs).messages)

\* EmptySummary with a fault: the duration is a record of zeroes
EmptySummaryZeroDuration ==
    [ totalSections |-> 0,
      totalMessages |-> 0,
      averageMessagesPerSection |-> 0,
      topics |-> << >>,
      participants |-> << >>,
      duration |-> << [ milliseconds |-> 0, seconds |-> 0, minutes |-> 0,
                        hours |-> << "0", ".", "0", "0" >> ] >> ]

\* The record of lines 289-296: the average is the number 0, not a string;
\* the empty Set of participants and the null duration are empty tuples
EmptySummary ==
    [ totalSections |-> 0,
      totalMessages |-> 0,
      averageMessagesPerSection |-> 0,
      topics |-> << >>,
      participants |-> << >>,
      duration |-> << >> ]

\* Duration with a fault: the span from the earliest start to the latest end
DurationSpan(secs) ==
    LET ends == { secs[k].endTime : k \in 1..Len(secs) }
        starts == { secs[k].startTime : k \in 1..Len(secs) }
    IN  (CHOOSE a \in ends : \A b \in ends : a >= b)
          - (CHOOSE a \in starts : \A b \in starts : a <= b)

\* lastSection.endTime - firstSection.startTime
Duration(secs) == secs[Len(secs)].endTime - secs[1].startTime

\* The record of lines 314-328; duration is a tuple of one record
generateSectionSummary(secs) ==
    IF Len(secs) = 0
    THEN EmptySummary
    ELSE LET duration == Duration(secs)
         IN  [ totalSections |-> Len(secs),
               totalMessages |-> TotalMessages(secs),
               averageMessagesPerSection |-> toFixed2(TotalMessages(secs), Len(secs)),
               topics |-> SortByCount(TopicEntries(secs)),
               participants |-> AllParticipants(secs),
               duration |-> << [ milliseconds |-> duration,
                                 seconds |-> Round(duration, 1000),
                                 minutes |-> Round(duration, 1000 * 60),
                                 hours |-> toFixed2(duration, 1000 * 60 * 60) ] >> ]

\* the caller passes the array detectSections returned to generateSectionSummary
SummariseDetected ==
    /\ pc = "detected"
    /\ summary' = generateSectionSummary(sections)
    /\ retKind' = "object"
    /\ pc' = "summarised"
    /\ UNCHANGED << detectVars, mergeVars, topicVars, parseVars, argKind, storageVars >>

\* the caller passes its sections, or the merged array it got back, to
\* generateSectionSummary
SummariseSections ==
    /\ pc \in { "sections", "merged" }
    /\ LET arg == IF pc = "merged" THEN merged ELSE input
       IN  /\ summary' = generateSectionSummary(View(heap, arg))
           /\ input' = arg
           /\ before' = View(heap, arg)
    /\ retKind' = "object"
    /\ pc' = "summarised"
    /\ UNCHANGED << heap, merged, threshold, detectVars, topicVars,
                    parseVars, argKind, storageVars >>

\* generateSectionSummary on the caller's sections
NextSummary == Build \/ SummariseSections

SpecSummary == InitMerge /\ [][NextSummary]_vars

----------------------------------------------------------------------------
(* detectSections and generateSectionSummary on conversations without time *)
(* gaps and without section markers                                        *)

\* contents of three topics (technical, question, general), none with a marker
QuietContents == { Null, <<"b","u","g">>, <<"W","h","y">> }

\* timestamps at most timeGap minutes apart
QuietTimestamps == { BaseTime, BaseTime + DefaultTimeGap * MsPerMinute }

InitEndToEnd ==
    /\ pc = "start"
    /\ options = [ timeGap |-> DefaultTimeGap, sectionMarkers |-> DefaultMarkers,
                   detectTopicChanges |-> TRUE ]
    /\ DetectIdle
    /\ MergeIdle
    /\ TopicIdle
    /\ RestIdle

DetectStepQuiet ==
    DetectStepFrom(QuietContents, QuietTimestamps, { Null }, { Null }, MaxRunMsgs)

NextEndToEnd ==
    \/ DetectEmpty
    \/ DetectStepQuiet
    \/ DetectReturn
    \/ SummariseDetected

SpecEndToEnd == InitEndToEnd /\ [][NextEndToEnd]_vars

----------------------------------------------------------------------------
(* detectSections on messages with author and user fields *)

DetectStepPeople ==
    DetectStepFrom({ <<"b","u","g">>, <<"W","h","y">> }, { BaseTime },
                   { Null, Alice, Bob }, { Null, Bob, Carol }, MaxMsgs)

NextPeople ==
    \/ DetectEmpty
    \/ DetectStepPeople
    \/ DetectReturn

SpecPeople == InitEndToEnd /\ [][NextPeople]_vars

----------------------------------------------------------------------------
(* Calls with an argument that is not an array: Array.isArray is false and *)
(* each function returns from its first guard                              *)

NonArrayKinds == { "undefined", "null", "string", "number", "object" }

\* detectSections(x): the guard of the empty list returns a new empty array
DetectNonArray ==
    /\ pc = "start"
    /\ argKind' \in NonArrayKinds
    /\ sections' = <<>>
    /\ retKind' = "array"
    /\ pc' = "detected"
    /\ UNCHANGED << messages, options, currentSection, sectionId, clock,
                    timestamps, mergeVars, topicVars, summaryVars, parseVars, storageVars >>

\* mergeSimilarSections(x): the guard returns its argument
MergeNonArray ==
    /\ pc = "start"
    /\ argKind' \in NonArrayKinds
    /\ retKind' = argKind'
    /\ pc' = "merged"
    /\ UNCHANGED << detectVars, mergeVars, topicVars, summaryVars, parseVars, storageVars >>

\* generateSectionSummary(x): the guard returns the record of an empty list
SummaryNonArray ==
    /\ pc = "start"
    /\ argKind' \in NonArrayKinds
    /\ summary' = generateSectionSummary(<<>>)
    /\ retKind' = "object"
    /\ pc' = "summarised"
    /\ UNCHANGED << detectVars, mergeVars, topicVars, parseVars, storageVars >>

NextCalls ==
    \/ NextEndToEnd
    \/ DetectNonArray
    \/ MergeNonArray
    \/ SummaryNonArray

SpecCalls == InitEndToEnd /\ [][NextCalls]_vars

----------------------------------------------------------------------------
(* The stages in a row: detectSections, then mergeSimilarSections once or  *)
(* twice on the array it returned, then generateSectionSummary             *)

\* contents of three topics, one of them opening a section by its marker
PipelineContents ==
    { Null, <<"b","u","g">>, <<"T","o","p","i","c",":"," ","n","e","x","t">> }

InitPipeline ==
    /\ pc = "start"
    /\ options \in { o \in OptionsPool : o.sectionMarkers = DefaultMarkers }
    /\ DetectIdle
    /\ MergeIdle
    /\ TopicIdle
    /\ RestIdle

DetectStepPipeline ==
    DetectStepFrom(PipelineContents, { BaseTime }, { Alice, Bob }, { Null }, MaxMsgs)

\* the caller keeps the returned section objects and chooses a threshold
Pass ==
    /\ pc = "detected"
    /\ heap' = sections
    /\ input' = [ k \in 1..Len(sections) |-> k ]
    /\ threshold' \in ThresholdPool
    /\ pc' = "sections"
    /\ UNCHANGED << merged, before, detectVars, topicVars, restVars >>

\* the caller passes the same array of sections to mergeSimilarSections a
\* second time; before is now what the first call returned
MergeSame ==
    /\ pc = "merged"
    /\ LET r == mergeSimilarSections(heap, input, threshold)
       IN  /\ heap' = r.heap
           /\ merged' = r.merged
    /\ before' = View(heap, merged)
    /\ pc' = "mergedTwice"
    /\ UNCHANGED << input, threshold, detectVars, topicVars, restVars >>

NextPipeline ==
    \/ DetectEmpty
    \/ DetectStepPipeline
    \/ DetectReturn
    \/ Pass
    \/ Merge
    \/ MergeSame
    \/ SummariseSections

SpecPipeline == InitPipeline /\ [][NextPipeline]_vars

\* the same with messages stamped within and beyond the gap, or not at all
DetectStepTimed ==
    DetectStepFrom(PipelineContents,
                   { 0, BaseTime, BaseTime + (DefaultTimeGap + 1) * MsPerMinute },
                   { Null }, { Null }, MaxMsgs)

NextDetectMerge ==
    \/ DetectEmpty
    \/ DetectStepTimed
    \/ DetectReturn
    \/ Pass
    \/ Merge

SpecDetectMerge == InitPipeline /\ [][NextDetectMerge]_vars

----------------------------------------------------------------------------
(* StorageManager: set, get and _retryOperation *)

ConfigPool ==
    { [ DefaultConfig EXCEPT !.chrome = c, !.enableCache = e, !.cacheTTL = t,
                             !.maxRetries = m ] :
        c \in BOOLEAN, e \in BOOLEAN, t \in { DefaultConfig.retryDelay, DefaultConfig.cacheTTL },
        m \in { 0, 1, 2, DefaultConfig.maxRetries } }

\* the items argument of set: an object with some of the keys
ItemsPool == { ("a" :> "1"), ("a" :> "2"), ("a" :> "2" @@ "b" :> "2") }

\* the keys argument of get: a key or an array of keys
KeysPool == { { "a" }, { "a", "b" } }

\* Object.assign(this._inMemoryStorage, items), and storage.set(items)
Put(store, items) ==
    [ k \in Keys |-> IF k \in DOMAIN items THEN items[k] ELSE store[k] ]

\* the object with the entries of the keys the store has
Pick(store, keys) ==
    [ k \in { j \in keys : store[j] # Absent } |-> store[k] ]

_setInCache(cache, items, now) ==
    [ k \in Keys |-> IF k \in DOMAIN items
                     THEN [ value |-> items[k], timestamp |-> now ]
                     ELSE cache[k] ]

_isCacheExpired(cacheEntry, now) == now - cacheEntry.timestamp > config.cacheTTL

\* cached && !this._isCacheExpired(cached)
Usable(cache, key, now) ==
    cache[key].value # Absent /\ ~_isCacheExpired(cache[key], now)

\* found is foundAll; the entries of the keys not usable are deleted
_getFromCache(cache, keys, now) ==
    [ found |-> \A k \in keys : Usable(cache, k, now),
      result |-> [ k \in { j \in keys : Usable(cache, j, now) } |-> cache[k].value ],
      cache |-> [ k \in Keys |-> IF k \in keys /\ ~Usable(cache, k, now)
                                 THEN EmptyCache[k] ELSE cache[k] ] ]

\* Backoff with a fault: the delay does not grow
BackoffConstant(retryDelay, attempt) == retryDelay

\* retryDelay * Math.pow(2, attempt)
Backoff(retryDelay, attempt) == retryDelay * 2 ^ attempt

InitStorage ==
    /\ pc = "ready"
    /\ options = [ timeGap |-> DefaultTimeGap, sectionMarkers |-> DefaultMarkers,
                   detectTopicChanges |-> TRUE ]
    /\ DetectIdle
    /\ MergeIdle
    /\ TopicIdle
    /\ summary = NoSummary
    /\ text = Null
    /\ parseOptions = DefaultParseOptions
    /\ parsed = <<>>
    /\ argKind = "array"
    /\ retKind = "none"
    /\ config \in ConfigPool
    /\ chromeStorage = EmptyStore
    /\ inMemoryStorage = EmptyStore
    /\ memoryCache = EmptyCache
    /\ call = NoCall

StorageFrame ==
    UNCHANGED << messages, options, sections, currentSection, sectionId,
                 timestamps, mergeVars, topicVars, summaryVars, parseVars,
                 callVars, config >>

\* the record of a call that begins
Begun(op, arg) ==
    [ NoCall EXCEPT !.op = op, !.arg = arg, !.outcome = "pending",
                    !.seq = call.seq + 1,
                    !.previous = IF call.op = "none" THEN << >>
                                 ELSE << [ op |-> call.op, arg |-> call.arg,
                                           outcome |-> call.outcome ] >> ]

\* set(items) up to the call of _retryOperation, lines 118-133
Set ==
    /\ pc = "ready"
    /\ call.seq < MaxCalls
    /\ \E items \in ItemsPool :
         /\ inMemoryStorage' = Put(inMemoryStorage, items)
         /\ memoryCache' = IF config.enableCache
                           THEN _setInCache(memoryCache, items, clock)
                           ELSE memoryCache
         /\ IF config.chrome
            THEN /\ call' = [ Begun("set", items) EXCEPT !.retry = "pending" ]
                 /\ pc' = "attempting"
            ELSE /\ call' = [ Begun("set", items) EXCEPT !.outcome = "returned" ]
                 /\ pc' = "ready"
    /\ UNCHANGED << chromeStorage, clock >>
    /\ StorageFrame

\* get(keys) up to the call of _retryOperation, lines 75-88
Get ==
    /\ pc = "ready"
    /\ call.seq < MaxCalls
    /\ \E keys \in KeysPool :
         LET cached == _getFromCache(memoryCache, keys, clock)
         IN  IF config.enableCache /\ cached.found
             THEN /\ call' = [ Begun("get", keys) EXCEPT !.outcome = "returned",
                                                        !.result = cached.result ]
                  /\ memoryCache' = cached.cache
                  /\ pc' = "ready"
             ELSE /\ memoryCache' = IF config.enableCache THEN cached.cache
                                    ELSE memoryCache
                  /\ IF config.chrome
                     THEN /\ call' = [ Begun("get", keys) EXCEPT !.retry = "pending" ]
                          /\ pc' = "attempting"
                     ELSE /\ call' = [ Begun("get", keys) EXCEPT
                                         !.outcome = "returned",
                                         !.result = Pick(inMemoryStorage, keys) ]
                          /\ pc' = "ready"
    /\ UNCHANGED << chromeStorage, inMemoryStorage, clock >>
    /\ StorageFrame

\* one pass of the loop of _retryOperation: operation() is called and chrome
\* runs the callback with or without chrome.runtime.lastError
Attempt ==
    /\ pc = "attempting"
    /\ call.attempt < config.maxRetries
    /\ \E ok \in BOOLEAN :
         IF ok
         THEN /\ pc' = "ready"
              /\ IF call.op = "set"
                 THEN /\ chromeStorage' = Put(chromeStorage, call.arg)
                      /\ call' = [ call EXCEPT !.invoked = @ + 1,
                                               !.retry = "resolved",
                                               !.outcome = "returned" ]
                      /\ UNCHANGED memoryCache
                 ELSE /\ call' = [ call EXCEPT !.invoked = @ + 1,
                                               !.retry = "resolved",
                                               !.outcome = "returned",
                                               !.result = Pick(chromeStorage, call.arg) ]
                      /\ memoryCache' =
                           IF config.enableCache
                           THEN _setInCache(memoryCache, Pick(chromeStorage, call.arg), clock)
                           ELSE memoryCache
                      /\ UNCHANGED chromeStorage
         ELSE /\ IF call.attempt < config.maxRetries - 1
                 THEN /\ call' = [ call EXCEPT
                                     !.invoked = @ + 1,
                                     !.lastError = call.attempt,
                                     !.waits = Append(@, Backoff(config.retryDelay,
                                                                 call.attempt)) ]
                      /\ pc' = "backoff"
                 ELSE /\ call' = [ call EXCEPT !.invoked = @ + 1,
                                               !.lastError = call.attempt,
                                               !.attempt = @ + 1 ]
                      /\ pc' = "attempting"
              /\ UNCHANGED << chromeStorage, memoryCache >>
    /\ UNCHANGED << inMemoryStorage, clock >>
    /\ StorageFrame

\* the timer of line 391 fires
TimerFires ==
    /\ pc = "backoff"
    /\ clock' = clock + call.waits[Len(call.waits)]
    /\ call' = [ call EXCEPT !.attempt = @ + 1 ]
    /\ pc' = "attempting"
    /\ UNCHANGED << chromeStorage, inMemoryStorage, memoryCache >>
    /\ StorageFrame

\* RetriesExhausted with a fault: a set that fails takes its items back
RetriesExhaustedRollsBack ==
    /\ pc = "attempting"
    /\ call.attempt >= config.maxRetries
    /\ call' = IF call.op = "set"
               THEN [ call EXCEPT !.retry = "rejected", !.outcome = "thrown",
                                  !.thrown = call.lastError ]
               ELSE [ call EXCEPT !.retry = "rejected", !.outcome = "returned",
                                  !.thrown = call.lastError,
                                  !.result = Pick(inMemoryStorage, call.arg) ]
    /\ inMemoryStorage' =
         IF call.op = "set"
         THEN [ k \in Keys |-> IF k \in DOMAIN call.arg THEN Absent
                               ELSE inMemoryStorage[k] ]
         ELSE inMemoryStorage
    /\ memoryCache' =
         IF call.op = "set"
         THEN [ k \in Keys |-> IF k \in DOMAIN call.arg THEN EmptyCache[k]
                               ELSE memoryCache[k] ]
         ELSE memoryCache
    /\ pc' = "ready"
    /\ UNCHANGED << chromeStorage, clock >>
    /\ StorageFrame

\* the loop is left and lastError is thrown: set logs and rethrows it, get
\* logs it and returns what the in-memory storage has
RetriesExhausted ==
    /\ pc = "attempting"
    /\ call.attempt >= config.maxRetries
    /\ call' = IF call.op = "set"
               THEN [ call EXCEPT !.retry = "rejected", !.outcome = "thrown",
                                  !.thrown = call.lastError ]
               ELSE [ call EXCEPT !.retry = "rejected", !.outcome = "returned",
                                  !.thrown = call.lastError,
                                  !.result = Pick(inMemoryStorage, call.arg) ]
    /\ pc' = "ready"
    /\ UNCHANGED << chromeStorage, inMemoryStorage, memoryCache, clock >>
    /\ StorageFrame

NextStorage ==
    \/ Set
    \/ Get
    \/ Attempt
    \/ TimerFires
    \/ RetriesExhausted

SpecStorage == InitStorage /\ [][NextStorage]_vars

----------------------------------------------------------------------------
(* Properties of detectSections *)

\* the messages of a list of sections, concatenated in order
RECURSIVE Flatten(_)
Flatten(secs) ==
    IF secs = <<>> THEN <<>> ELSE Head(secs).messages \o Flatten(Tail(secs))

\* content holds one of the markers as a substring, letter case ignored
ContainsMarker(content, markers) ==
    \E k \in 1..Len(markers) :
        \E p \in 1..(Len(content) - Len(markers[k]) + 1) :
            \A j \in 1..Len(markers[k]) :
                toLowerCaseChar(content[p + j - 1]) = toLowerCaseChar(markers[k][j])

\* ContainsMarker of every marker list and content the lists are drawn from
Marked ==
    [ m \in { o.sectionMarkers : o \in OptionsPool } |->
        [ c \in ContentPool |-> ContainsMarker(c, m) ] ]

\* no message is stamped earlier than the message before it
TimeOrdered ==
    \A k \in 1..(Len(timestamps) - 1) : timestamps[k] <= timestamps[k + 1]

\* an iteration of the loop has just processed the message Arrived, which
\* followed the message Previous
StepTaken == pc' = "loop" /\ Len(messages') = Len(messages) + 1
Arrived == messages'[Len(messages')]
Previous == messages[Len(messages)]
StartsSection == currentSection'[1].messages = << Arrived >>
ArrivedMarked == Marked[options.sectionMarkers][Arrived.content]
TopicsDiffer == TopicOf[Previous.content] # TopicOf[Arrived.content]
GapExceeded ==
    timestamps'[Len(timestamps')] - currentSection[1].endTime
        > options.timeGap * MsPerMinute

\* the same, read off the state the iteration has led to
LastMarked == Marked[options.sectionMarkers][messages[Len(messages)].content]
LastTopicDiffers ==
    TopicOf[messages[Len(messages) - 1].content]
        # TopicOf[messages[Len(messages)].content]
LastElapsed == timestamps[Len(timestamps)] - timestamps[Len(timestamps) - 1]
LastStartsSection == Len(currentSection[1].messages) = 1

\* C1: the sections returned for a non-empty message list, concatenated in
\* output order, are exactly the message list, and no section is empty.
C1_Partition ==
    (pc = "detected" /\ messages # <<>>) =>
        /\ Flatten(sections) = messages
        /\ \A k \in 1..Len(sections) : Len(sections[k].messages) >= 1

C1_Witness ==
    /\ pc = "detected"
    /\ Len(sections) >= 2
    /\ \E k \in 1..Len(sections) : Len(sections[k].messages) >= 2

\* C2 as stated: every returned section has endTime >= startTime, whatever
\* the message list.
C2_EndNotBeforeStart ==
    pc = "detected" =>
        \A k \in 1..Len(sections) : sections[k].endTime >= sections[k].startTime

\* C2 amended: every returned section has endTime >= startTime when no
\* message of the list is stamped earlier than the message before it.
C2_EndNotBeforeStartOrdered ==
    (pc = "detected" /\ TimeOrdered) =>
        \A k \in 1..Len(sections) : sections[k].endTime >= sections[k].startTime

C2_Witness ==
    /\ pc = "detected"
    /\ TimeOrdered
    /\ \E k \in 1..Len(sections) :
         /\ Len(sections[k].messages) >= 2
         /\ sections[k].endTime > sections[k].startTime

\* C3 as stated: the returned sections are in non-decreasing startTime order,
\* whatever the message list.
C3_StartTimesAscend ==
    pc = "detected" =>
        \A k \in 1..(Len(sections) - 1) :
            sections[k].startTime <= sections[k + 1].startTime

\* C3 amended: the returned sections are in non-decreasing startTime order
\* when no message of the list is stamped earlier than the message before it.
C3_StartTimesAscendOrdered ==
    (pc = "detected" /\ TimeOrdered) =>
        \A k \in 1..(Len(sections) - 1) :
            sections[k].startTime <= sections[k + 1].startTime

C3_Witness ==
    /\ pc = "detected"
    /\ TimeOrdered
    /\ Len(sections) >= 2
    /\ \E k \in 1..Len(messages) : messages[k].timestamp = 0
    /\ \E k \in 1..(Len(sections) - 1) :
         sections[k].startTime < sections[k + 1].startTime

\* C4: a message after the first that holds no marker and causes no topic
\* change starts a new section exactly when its timestamp is more than
\* timeGap minutes after the open section's endTime.
C4_TimeGapRule ==
    [][ (StepTaken /\ Len(messages) > 0 /\ ~ArrivedMarked
            /\ ~(options.detectTopicChanges /\ TopicsDiffer))
        => (StartsSection <=> GapExceeded) ]_vars

\* exactly the default gap has kept the second message in the section and
\* one millisecond more has opened a section at the third
C4_Witness ==
    /\ pc = "loop"
    /\ Len(messages) = 3
    /\ options.timeGap = DefaultTimeGap
    /\ \A k \in 1..3 : messages[k].content = <<"b","u","g">>
    /\ timestamps[2] - timestamps[1] = DefaultTimeGap * MsPerMinute
    /\ timestamps[3] - timestamps[2] = DefaultTimeGap * MsPerMinute + 1
    /\ Len(sections) = 1
    /\ Len(sections[1].messages) = 2
    /\ LastStartsSection

\* C5: a message that holds a marker, in any letter case, starts a new
\* section whatever the gap and the topics; a message after the first with
\* no marker, within the gap and with no topic change starts none.
C5_MarkerRule ==
    [][ StepTaken =>
          /\ ArrivedMarked => StartsSection
          /\ (Len(messages) > 0 /\ ~ArrivedMarked /\ ~GapExceeded
                /\ ~(options.detectTopicChanges /\ TopicsDiffer))
             => ~StartsSection ]_vars

\* a marker written in another letter case than the configured one has
\* opened a section, within the gap and with the topic unchanged
C5_Witness ==
    /\ pc = "loop"
    /\ Len(messages) >= 2
    /\ options.sectionMarkers = DefaultMarkers
    /\ LastMarked
    /\ \A k \in 1..Len(DefaultMarkers) :
         ~includes(messages[Len(messages)].content, DefaultMarkers[k])
    /\ ~LastTopicDiffers
    /\ LastElapsed = 0
    /\ LastStartsSection

\* C6: with detectTopicChanges a message after the first whose topic differs
\* from the topic of the message before it starts a new section; without it
\* a message after the first with no marker and within the gap starts none,
\* whatever the topics.
C6_TopicRule ==
    [][ (StepTaken /\ Len(messages) > 0) =>
          /\ (options.detectTopicChanges /\ TopicsDiffer) => StartsSection
          /\ (~options.detectTopicChanges /\ ~ArrivedMarked /\ ~GapExceeded)
             => ~StartsSection ]_vars

\* a change from a keyword topic to 'general' alone has opened a section
C6_Witness ==
    /\ pc = "loop"
    /\ Len(messages) >= 2
    /\ options.detectTopicChanges
    /\ TopicOf[messages[Len(messages) - 1].content] = "technical"
    /\ TopicOf[messages[Len(messages)].content] = "general"
    /\ ~LastMarked
    /\ LastElapsed = 0
    /\ LastStartsSection

----------------------------------------------------------------------------
(* Properties of detectTopic *)

Labels == Range(TopicOrder) \cup { "general" }

\* the number of distinct keywords of the topic that occur in the content
Hits(content, topic) ==
    Cardinality({ kw \in Range(TopicKeywords[topic]) :
                    includes(toLowerCase(content), kw) })

\* C7: detectTopic returns the topic with the highest number of distinct
\* keywords in the lower-cased content, the earlier topic of the fixed order
\* on equal counts, and 'general' when no keyword occurs or the content is
\* empty; the result is one of the six labels.
C7_TopicChoice ==
    pc = "classified" =>
        /\ topicRet \in Labels
        /\ IF topicArg = Null \/ \A t \in Range(TopicOrder) : Hits(topicArg, t) = 0
           THEN topicRet = "general"
           ELSE \E k \in 1..Len(TopicOrder) :
                  /\ topicRet = TopicOrder[k]
                  /\ \A j \in 1..Len(TopicOrder) :
                       /\ Hits(topicArg, TopicOrder[j]) <= Hits(topicArg, TopicOrder[k])
                       /\ j < k => Hits(topicArg, TopicOrder[j]) < Hits(topicArg, TopicOrder[k])

\* two topics tie with one keyword each and the earlier one is returned
C7_Witness ==
    /\ pc = "classified"
    /\ topicArg = <<"W","h","y"," ","b","u","g">>
    /\ Hits(topicArg, "technical") = 1
    /\ Hits(topicArg, "question") = 1
    /\ topicRet = "technical"

----------------------------------------------------------------------------
(* Properties of mergeSimilarSections *)

\* the number of maximal runs of adjacent sections with equal topic
Runs(secs) ==
    IF secs = <<>> THEN 0
    ELSE 1 + Cardinality({ k \in 1..(Len(secs) - 1) : secs[k].topic # secs[k + 1].topic })

\* the index of the first section of the run that section k belongs to
RunStart(secs, k) ==
    CHOOSE a \in 1..k :
        /\ \A b \in a..k : secs[b].topic = secs[k].topic
        /\ \A c \in 1..(a - 1) : \E b \in c..k : secs[b].topic # secs[k].topic

Returned == View(heap, merged)

\* C8: with the default threshold the result has one section per maximal run
\* of adjacent input sections with equal topic, the run's first section with
\* the messages of the whole run, and no two adjacent results share a topic.
C8_OnePerRun ==
    (pc = "merged" /\ threshold = DefaultThreshold) =>
        /\ Len(Returned) = Runs(before)
        /\ \A k \in 1..(Len(Returned) - 1) : Returned[k].topic # Returned[k + 1].topic
        /\ \A k \in 1..Len(Returned) :
             /\ RunStart(before, merged[k]) = merged[k]
             /\ Returned[k].id = before[merged[k]].id
             /\ Returned[k].messages =
                  Flatten(SubSeq(before, merged[k],
                                 IF k < Len(merged) THEN merged[k + 1] - 1 ELSE Len(before)))

\* topics A, A, B have given two sections, the first two fused
C8_Witness ==
    /\ pc = "merged"
    /\ threshold = DefaultThreshold
    /\ Len(before) = 3
    /\ before[1].topic = before[2].topic
    /\ before[2].topic # before[3].topic
    /\ Len(Returned) = 2
    /\ Returned[1].messages = before[1].messages \o before[2].messages

\* C9: the messages of the returned sections, concatenated in order, are the
\* messages of the sections passed in, concatenated in order; the surviving
\* sections keep their relative order and their startTime.
C9_MergePartition ==
    pc = "merged" =>
        /\ Flatten(Returned) = Flatten(before)
        /\ \A k \in 1..(Len(merged) - 1) : merged[k] < merged[k + 1]
        /\ \A k \in 1..Len(merged) : Returned[k].startTime = before[merged[k]].startTime

\* a section of two messages has absorbed another one
C9_Witness ==
    /\ pc = "merged"
    /\ Len(Returned) >= 2
    /\ Len(before[1].messages) = 2
    /\ Len(Returned[1].messages) >= 3

\* C10: merging the returned sections again returns the same sections with
\* the same fields, and fuses nothing.
C10_Idempotent ==
    pc = "remerged" =>
        /\ Returned = before
        /\ Len(merged) = Len(input)

\* the first call has fused sections and has left more than one
C10_Witness ==
    /\ pc = "remerged"
    /\ Len(heap) > Len(input)
    /\ Len(merged) >= 2
    /\ Returned = before

----------------------------------------------------------------------------
(* parseRawConversation *)

WordChar ==
    { "a","b","c","d","e","f","g","h","i","j","k","l","m","n","o","p","q","r",
      "s","t","u","v","w","x","y","z","A","B","C","D","E","F","G","H","I","J",
      "K","L","M","N","O","P","Q","R","S","T","U","V","W","X","Y","Z",
      "0","1","2","3","4","5","6","7","8","9","_" }

\* String.prototype.split with a non-empty separator
RECURSIVE split(_, _)
split(s, d) ==
    LET at == { k \in 1..(Len(s) - Len(d) + 1) : SubSeq(s, k, k + Len(d) - 1) = d }
    IN  IF at = {} THEN << s >>
        ELSE LET k == CHOOSE a \in at : \A b \in at : a <= b
             IN  << SubSeq(s, 1, k - 1) >> \o split(SubSeq(s, k + Len(d), Len(s)), d)

\* /^([\w\s]+?):\s*/m tried at position p: ^ holds at the start of a line, the
\* lazy group ends before the first colon, \s* takes all white space behind it
LineStarts(s) == { p \in 1..Len(s) : p = 1 \/ s[p - 1] \in LineTerminator }

ColonAfter(s, p) ==
    { q \in (p + 1)..Len(s) :
        /\ s[q] = ":"
        /\ \A j \in p..(q - 1) : s[j] \in WordChar \cup WhiteSpace }

MatchEnd(s, q) ==
    LET stop == { e \in (q + 1)..Len(s) : s[e] \notin WhiteSpace }
    IN  IF stop = {} THEN Len(s)
        ELSE (CHOOSE a \in stop : \A b \in stop : a <= b) - 1

NoMatch == [ index |-> 0, group |-> <<>>, end |-> 0 ]

\* String.prototype.match with the default authorPattern: the leftmost match
authorMatch(s) ==
    LET at == { p \in LineStarts(s) : ColonAfter(s, p) # {} }
    IN  IF at = {} THEN NoMatch
        ELSE LET p == CHOOSE a \in at : \A b \in at : a <= b
                 q == CHOOSE c \in ColonAfter(s, p) : TRUE
             IN  [ index |-> p, group |-> SubSeq(s, p, q - 1), end |-> MatchEnd(s, q) ]

\* segment.replace(authorPattern, '')
replaceAuthor(s) ==
    LET m == authorMatch(s)
    IN  IF m = NoMatch THEN s
        ELSE SubSeq(s, 1, m.index - 1) \o SubSeq(s, m.end + 1, Len(s))

Unknown == <<"U","n","k","n","o","w","n">>

\* parseSegment with a fault: the author prefix stays in the content
parseSegmentKeepsPrefix(segment, index, now, opts) ==
    LET m == authorMatch(segment)
    IN  [ id |-> index,
          timestamp |-> now,
          content |-> trim(segment),
          author |-> IF m # NoMatch THEN trim(m.group) ELSE Unknown,
          originalContent |-> IF opts.preserveFormatting THEN segment ELSE Null ]

\* the message object built for one segment
parseSegment(segment, index, now, opts) ==
    LET m == authorMatch(segment)
    IN  [ id |-> index,
          timestamp |-> now,
          content |-> IF m # NoMatch THEN trim(replaceAuthor(segment))
                      ELSE trim(segment),
          author |-> IF m # NoMatch THEN trim(m.group) ELSE Unknown,
          originalContent |-> IF opts.preserveFormatting THEN segment ELSE Null ]

\* text.split(delimiter).filter((s) => s.trim())
Segments(t, opts) ==
    SelectSeq(split(t, opts.delimiter), LAMBDA x : trim(x) # <<>>)

\* the forEach over the segments from index i on; stamps[i] is what new Date()
\* gives for segment i
RECURSIVE ParseLoop(_, _, _, _)
ParseLoop(segments, i, stamps, opts) ==
    IF i > Len(segments) THEN <<>>
    ELSE LET message == parseSegment(segments[i], i - 1, stamps[i], opts)
         IN  (IF message.content # Null THEN << message >> ELSE <<>>)
               \o ParseLoop(segments, i + 1, stamps, opts)

parseRawConversation(t, opts, stamps) ==
    IF t = Null THEN <<>>
    ELSE ParseLoop(Segments(t, opts), 1, stamps, opts)

SegmentPool ==
    { <<"A","l","i","c","e",":"," ","h","i">>,
      <<"B","o","b",":"," ","h","e","l","l","o">>,
      <<"B","o","b",":">>,
      <<"h","e","y">>,
      <<"h","i","!","\n","B","o","b",":"," ","y","o">>,
      <<" ">> }

\* the texts of up to n pieces put together with blank lines
RECURSIVE Texts(_)
Texts(n) ==
    IF n = 0 THEN { Null }
    ELSE Texts(n - 1)
           \cup { t \o <<"\n","\n">> \o x : t \in Texts(n - 1) \ { Null }, x \in SegmentPool }
           \cup SegmentPool

ParseOptionsPool ==
    { [ DefaultParseOptions EXCEPT !.preserveFormatting = b ] : b \in BOOLEAN }

InitParse ==
    /\ pc = "text"
    /\ options = [ timeGap |-> DefaultTimeGap, sectionMarkers |-> DefaultMarkers,
                   detectTopicChanges |-> TRUE ]
    /\ DetectIdle
    /\ MergeIdle
    /\ TopicIdle
    /\ summary = NoSummary
    /\ argKind = "array"
    /\ retKind = "none"
    /\ StorageIdle
    /\ text \in Texts(MaxSegments)
    /\ parseOptions \in ParseOptionsPool
    /\ parsed = <<>>

\* one call of parseRawConversation; the clock may advance between segments
Parse ==
    /\ pc = "text"
    /\ LET n == IF text = Null THEN 0 ELSE Len(Segments(text, parseOptions))
       IN  \E stamps \in [ 1..n -> NowPool ] :
             /\ \A i \in 1..n : stamps[i] >= clock
             /\ \A i \in 1..(n - 1) : stamps[i] <= stamps[i + 1]
             /\ parsed' = parseRawConversation(text, parseOptions, stamps)
             /\ clock' = IF n = 0 THEN clock ELSE stamps[n]
    /\ retKind' = "array"
    /\ pc' = "parsed"
    /\ UNCHANGED << messages, options, sections, currentSection, sectionId,
                    timestamps, mergeVars, topicVars, summaryVars, text,
                    parseOptions, argKind, storageVars >>

NextParse == Parse

SpecParse == InitParse /\ [][NextParse]_vars

----------------------------------------------------------------------------
(* Properties of the stages as transformations *)

\* the fields of a section that mergeSimilarSections writes
Written(sec) ==
    [ messages |-> sec.messages, endTime |-> sec.endTime,
      participants |-> sec.participants ]

\* C11: detectSections, mergeSimilarSections and generateSectionSummary leave
\* the list they are given and every record in it unchanged: the sections
\* passed in have the same messages, endTime and participants after the call
\* as before, and the sections detectSections returns hold the messages as
\* they were passed in.
C11_InputsUnchanged ==
    /\ pc \in { "merged", "summarised" } =>
         /\ Len(input) = Len(before)
         /\ \A k \in 1..Len(input) : Written(heap[input[k]]) = Written(before[k])
    /\ pc = "detected" => Flatten(sections) = messages

\* C12: two calls of mergeSimilarSections in succession with the same list
\* return sections with the same messages, endTime and participants.
C12_SameResultTwice ==
    pc = "mergedTwice" =>
        /\ Len(merged) = Len(before)
        /\ \A k \in 1..Len(merged) : Written(heap[merged[k]]) = Written(before[k])

\* the detected topic of the i-th message passed in
MessageTopic(i) == TopicOf[messages[i].content]

\* the number of maximal runs of consecutive messages with equal detected topic
TopicRuns ==
    Cardinality({ i \in 1..Len(messages) :
                    i = 1 \/ MessageTopic(i) # MessageTopic(i - 1) })

\* five messages in blocks of 2, 1 and 2 of three distinct topics
Blocks212 ==
    /\ Len(messages) = 5
    /\ MessageTopic(1) = MessageTopic(2)
    /\ MessageTopic(4) = MessageTopic(5)
    /\ Cardinality({ MessageTopic(1), MessageTopic(3), MessageTopic(4) }) = 3

\* C13: without time gaps and markers and with detectTopicChanges on,
\* detectSections returns one section per maximal run of messages with equal
\* detected topic, and the summary of that output has totalSections = the
\* number of runs and totalMessages = the number of messages; five messages
\* in blocks of 2, 1 and 2 give 3 sections, totalMessages 5 and average "1.67".
C13_OneSectionPerTopicRun ==
    pc = "summarised" =>
        /\ Flatten(sections) = messages
        /\ Len(sections) = TopicRuns
        /\ \A k \in 1..Len(sections) :
             /\ \A i \in 1..Len(sections[k].messages) :
                  TopicOf[sections[k].messages[i].content]
                    = TopicOf[sections[k].messages[1].content]
             /\ k > 1 =>
                  TopicOf[sections[k].messages[1].content]
                    # TopicOf[sections[k - 1].messages[1].content]
        /\ summary.totalSections = TopicRuns
        /\ summary.totalMessages = Len(messages)
        /\ Blocks212 =>
             /\ Len(sections) = 3
             /\ summary.totalMessages = 5
             /\ summary.averageMessagesPerSection = <<"1",".","6","7">>

C13_Witness ==
    /\ pc = "summarised"
    /\ Blocks212
    /\ summary.totalSections = 3
    /\ summary.averageMessagesPerSection = <<"1",".","6","7">>

\* C14: the ids of the messages parseRawConversation returns are 0, 1, ...
\* without a gap: a segment dropped for empty content reserves no id.
C14_IdsContiguous ==
    pc = "parsed" => \A k \in 1..Len(parsed) : parsed[k].id = k - 1

\* the non-blank pieces of the text between blank lines
Pieces == SelectSeq(split(text, <<"\n","\n">>), LAMBDA x : trim(x) # <<>>)

\* the positions of the colon of a segment of the form '<Label>: <body>': the
\* label is made of word characters and blanks
LabelColon(seg) ==
    { q \in 2..Len(seg) :
        /\ seg[q] = ":"
        /\ \A j \in 1..(q - 1) : seg[j] \in WordChar \cup { " ", "\t" } }

\* no line of the segment begins with word and space characters up to a colon
NoAuthorPrefix(seg) ==
    ~ \E p \in 1..Len(seg), q \in 1..Len(seg) :
          /\ p < q
          /\ p = 1 \/ seg[p - 1] \in LineTerminator
          /\ seg[q] = ":"
          /\ \A j \in p..(q - 1) : seg[j] \in WordChar \cup WhiteSpace

\* the messages returned for the k-th piece
MessagesOf(k) == { i \in 1..Len(parsed) : parsed[i].id = k - 1 }

C16_NonArrayNeutral ==
    argKind # "array" =>
        /\ pc = "detected" => retKind = "array" /\ sections = <<>>
        /\ pc = "merged" => retKind = "array" /\ merged = <<>>
        /\ pc = "summarised" =>
             /\ retKind = "object"
             /\ summary.totalSections = 0
             /\ summary.totalMessages = 0
             /\ summary.topics = <<>>
             /\ summary.participants = <<>>
             /\ summary.duration = <<>>

\* C17: the k-th section detectSections creates has id k - 1, and where no
\* title can be extracted from its first message its title is 'Section k',
\* the section's id plus one.
C17_IdsAndFallbackTitle ==
    pc = "detected" =>
        \A k \in 1..Len(sections) :
            /\ sections[k].id = k - 1
            /\ TitleOf[sections[k].messages[1].content] = Null =>
                 /\ sections[k].title = <<"S","e","c","t","i","o","n"," ">> \o Decimal(k)
                 /\ sections[k].title
                      = <<"S","e","c","t","i","o","n"," ">> \o Decimal(sections[k].id + 1)

C17_Witness ==
    /\ pc = "detected"
    /\ Len(sections) >= 2
    /\ TitleOf[sections[2].messages[1].content] = Null
    /\ sections[2].id = 1
    /\ sections[2].title = <<"S","e","c","t","i","o","n"," ","2">>

\* the sections that exist: the closed ones and the open one
Existing == Range(sections) \cup Range(currentSection)

\* C18: a section's topic is the detected topic of its first message's
\* content at the time it is created; appending messages never changes it.
C18_TopicOfFirstMessage ==
    \A sec \in Existing : sec.topic = TopicOf[sec.messages[1].content]

C18_Witness ==
    \E sec \in Existing :
        /\ Len(sec.messages) >= 2
        /\ detectTopic(sec.messages[2].content) # detectTopic(sec.messages[1].content)
        /\ sec.topic = detectTopic(sec.messages[1].content)

\* the non-empty author and user values of a section's messages
Names(sec) ==
    ({ sec.messages[i].author : i \in 1..Len(sec.messages) }
       \cup { sec.messages[i].user : i \in 1..Len(sec.messages) }) \ { Null }

\* where a name first occurs in a section: message by message, author before user
FirstAt(sec, x) ==
    LET at == { 2 * i - 1 : i \in { j \in 1..Len(sec.messages) : sec.messages[j].author = x } }
                \cup { 2 * i : i \in { j \in 1..Len(sec.messages) : sec.messages[j].user = x } }
    IN  CHOOSE a \in at : \A b \in at : a <= b

\* C19: a section's participants list has no duplicates, holds exactly the
\* non-empty author and user values of that section's messages, and lists
\* them in the order of their first occurrence.
C19_Participants ==
    \A sec \in Existing :
        LET p == sec.participants
        IN  /\ \A i, j \in 1..Len(p) : i # j => p[i] # p[j]
            /\ Range(p) = Names(sec)
            /\ \A i, j \in 1..Len(p) : i < j => FirstAt(sec, p[i]) < FirstAt(sec, p[j])

C19_Witness ==
    /\ pc = "detected"
    /\ \E k \in 1..Len(sections) :
         /\ Len(sections[k].messages) = 2
         /\ sections[k].messages[1].author = Alice
         /\ sections[k].messages[1].user = Bob
         /\ sections[k].messages[2].author = Bob
         /\ sections[k].messages[2].user = Carol
         /\ sections[k].participants = << Alice, Bob, Carol >>

\* the sections passed in that the k-th returned section stands for: itself
\* and the ones fused into it
Group(k) ==
    merged[k]..(IF k < Len(merged) THEN merged[k + 1] - 1 ELSE Len(before))

\* the sections passed in that were fused into a preceding one
Absorbed == (1..Len(before)) \ Range(merged)

\* what fusing gives: the messages in order, the end time of the last section
\* fused, every participant once, and the first section's id, title, topic
\* and start time
FusedFields(k) ==
    LET first == merged[k]
        last == CHOOSE a \in Group(k) : \A b \in Group(k) : a >= b
        p == Returned[k].participants
    IN  /\ Returned[k].messages = Flatten(SubSeq(before, first, last))
        /\ Returned[k].endTime = before[last].endTime
        /\ \A i, j \in 1..Len(p) : i # j => p[i] # p[j]
        /\ Range(p) = UNION { Range(before[j].participants) : j \in Group(k) }
        /\ Returned[k].id = before[first].id
        /\ Returned[k].title = before[first].title
        /\ Returned[k].topic = before[first].topic
        /\ Returned[k].startTime = before[first].startTime

\* C20 read literally: fusing B into the preceding A gives A's messages
\* followed by B's, B's endTime, the duplicate-free union of the participants
\* and A's id, title, topic and startTime; B's id, title and topic appear
\* nowhere in the output.
C20_FuseDropsIdTitleTopic ==
    pc = "merged" =>
        /\ \A k \in 1..Len(merged) : FusedFields(k)
        /\ \A j \in Absorbed : \A k \in 1..Len(merged) :
             /\ Returned[k].id # before[j].id
             /\ Returned[k].title # before[j].title
             /\ Returned[k].topic # before[j].topic

\* C20, with the last clause restricted: the fused section has the fields as
\* stated, B's id is the id of no returned section, and every returned section
\* carries the id, title and topic of the section it was when passed in; B's
\* title and topic are not copied, but they occur in the output where a
\* survivor has the same.
C20_FuseKeepsFirst ==
    pc = "merged" =>
        /\ \A k \in 1..Len(merged) : FusedFields(k)
        /\ \A j \in Absorbed : \A k \in 1..Len(merged) : Returned[k].id # before[j].id

\* B with participants bob, alice was fused into A with participant alice
C20_Witness ==
    /\ pc = "merged"
    /\ threshold = DefaultThreshold
    /\ 2 \in Absorbed
    /\ before[1].participants # before[2].participants
    /\ before[1].endTime # before[2].endTime
    /\ Returned[1].messages = before[1].messages \o before[2].messages
    /\ Returned[1].endTime = before[2].endTime
    /\ Returned[1].topic = before[2].topic
    /\ Returned[1].title = before[1].title

----------------------------------------------------------------------------
(* Properties of generateSectionSummary; before is the list passed in *)

RECURSIVE SumCounts(_)
SumCounts(entries) ==
    IF entries = <<>> THEN 0 ELSE entries[1].count + SumCounts(Tail(entries))

\* C21: for a non-empty list of sections totalSections is the number of
\* sections, totalMessages the sum of their message counts, and every distinct
\* section topic has exactly one entry in topics, whose count is the number of
\* sections with that topic; the counts sum to totalSections.
C21_Counts ==
    (pc = "summarised" /\ before # <<>>) =>
        /\ summary.totalSections = Len(before)
        /\ summary.totalMessages = Len(Flatten(before))
        /\ \A k \in 1..Len(before) :
             \E i \in 1..Len(summary.topics) :
                /\ summary.topics[i].topic = before[k].topic
                /\ \A j \in 1..Len(summary.topics) :
                     summary.topics[j].topic = before[k].topic => j = i
        /\ \A i \in 1..Len(summary.topics) :
             summary.topics[i].count
               = Cardinality({ k \in 1..Len(before) :
                                 before[k].topic = summary.topics[i].topic })
        /\ \A i \in 1..Len(summary.topics) : summary.topics[i].count > 0
        /\ SumCounts(summary.topics) = summary.totalSections

\* three sections of two topics and unequal message counts
C21_Witness ==
    /\ pc = "summarised"
    /\ Len(before) = 3
    /\ Len(before[1].messages) # Len(before[2].messages)
    /\ Len(summary.topics) = 2
    /\ summary.totalMessages = Len(Flatten(before))

\* where a topic is first seen in the list passed in
FirstSeen(t) ==
    LET at == { k \in 1..Len(before) : before[k].topic = t }
    IN  CHOOSE a \in at : \A b \in at : a <= b

\* C22: topics is sorted by count in descending order, and topics with equal
\* counts are in the order in which they are first seen in the list.
C22_TopicsSorted ==
    (pc = "summarised" /\ before # <<>>) =>
        \A i, j \in 1..Len(summary.topics) :
            i < j =>
              /\ summary.topics[i].count >= summary.topics[j].count
              /\ summary.topics[i].count = summary.topics[j].count =>
                   FirstSeen(summary.topics[i].topic) < FirstSeen(summary.topics[j].topic)

\* the topic seen second is listed first, with the higher count
C22_Witness ==
    /\ pc = "summarised"
    /\ Len(before) = 3
    /\ Len(summary.topics) = 2
    /\ summary.topics[1].topic # before[1].topic
    /\ summary.topics[1].count = 2

\* C23: duration.milliseconds is the endTime of the last section minus the
\* startTime of the first section of the list as given; the list is not
\* sorted by time, so this is not the span from the earliest startTime to the
\* latest endTime when the list is not time-ordered.
C23_DurationFirstToLast ==
    (pc = "summarised" /\ before # <<>>) =>
        /\ Len(summary.duration) = 1
        /\ summary.duration[1].milliseconds
             = before[Len(before)].endTime - before[1].startTime

\* the first section starts after the last one ends
C23_Witness ==
    /\ pc = "summarised"
    /\ Len(before) >= 2
    /\ before[1].startTime > before[Len(before)].endTime
    /\ summary.duration[1].milliseconds < 0
    /\ summary.duration[1].milliseconds # DurationSpan(before)

\* C24: for an empty list of sections the record is totalSections 0,
\* totalMessages 0, averageMessagesPerSection 0, topics empty, participants
\* empty, duration null.
C24_EmptySummary ==
    (pc = "summarised" /\ before = <<>>) =>
        /\ summary.totalSections = 0
        /\ summary.totalMessages = 0
        /\ summary.averageMessagesPerSection = 0
        /\ summary.topics = <<>>
        /\ summary.participants = <<>>
        /\ summary.duration = <<>>

C24_Witness ==
    /\ pc = "summarised"
    /\ input = <<>>
    /\ before = <<>>
    /\ summary.totalSections = 0
    /\ summary.averageMessagesPerSection = 0

----------------------------------------------------------------------------
(* Further properties of detectSections and mergeSimilarSections *)

\* C25: a message with empty content starts no section by the marker trigger
\* or the topic trigger: arriving within the gap after a message of any
\* topic, it is appended to the open section.
C25_EmptyContentAppends ==
    ( /\ pc = "loop"
      /\ Len(messages) >= 2
      /\ messages[Len(messages)].content = Null
      /\ LastElapsed <= options.timeGap * MsPerMinute ) => ~LastStartsSection

\* the timestamp the loop has computed for a message (line 44): its
\* timestamp field or, where that is missing, the time it was read
TimeOf(message) == timestamps[message.id + 1]

StartAndEnd(sec) ==
    /\ sec.startTime = TimeOf(sec.messages[1])
    /\ sec.endTime = TimeOf(sec.messages[Len(sec.messages)])

\* C26: in every section detectSections returns, and in every section
\* mergeSimilarSections returns for them, startTime is the timestamp of the
\* first message and endTime the timestamp of the last message; startTime
\* never changes once the section exists.
C26_StartAndEndTimes ==
    /\ \A sec \in Existing : StartAndEnd(sec)
    /\ pc = "merged" =>
         \A k \in 1..Len(merged) :
            /\ StartAndEnd(Returned[k])
            /\ Returned[k].startTime = before[merged[k]].startTime

\* a section of two messages with different timestamps has absorbed another
C26_Witness ==
    /\ pc = "merged"
    /\ Len(merged) < Len(before)
    /\ Len(before[1].messages) = 2
    /\ before[1].startTime # before[1].endTime
    /\ Returned[1].endTime # before[1].endTime
    /\ StartAndEnd(Returned[1])

\* every message of the section has the section's topic
OneTopic(sec) ==
    \A i \in 1..Len(sec.messages) : TopicOf[sec.messages[i].content] = sec.topic

\* C28: with detectTopicChanges every message of every section detectSections
\* returns has the section's topic as its detected topic, markers and time
\* gaps notwithstanding, and so has every message of the sections
\* mergeSimilarSections returns for them with a threshold in (0, 1].
C28_TopicHomogeneous ==
    options.detectTopicChanges =>
        /\ \A sec \in Existing : OneTopic(sec)
        /\ (pc = "merged" /\ threshold > 0 /\ threshold <= 10) =>
             \A k \in 1..Len(merged) : OneTopic(Returned[k])

\* a section opened by a marker has been fused into one of the same topic
C28_Witness ==
    /\ pc = "merged"
    /\ options.detectTopicChanges
    /\ threshold = DefaultThreshold
    /\ Len(before) = 2
    /\ Len(merged) = 1
    /\ Len(Returned[1].messages) >= 2
    /\ OneTopic(Returned[1])

\* what mergeSimilarSections returns for the list passed in under the
\* default threshold
DefaultResult ==
    LET r == mergeSimilarSections(before, [ k \in 1..Len(before) |-> k ],
                                  DefaultThreshold)
    IN  View(r.heap, r.merged)

\* C27: the threshold is only a bound on a similarity that is 1 for equal
\* topics and 0 otherwise: every threshold t with 0 < t <= 1 gives the result
\* of the default 0.7, t > 1 fuses nothing, and t <= 0 fuses all sections
\* into the first one whatever their topics.
C27_ThresholdIsABound ==
    pc = "merged" =>
        /\ (threshold > 0 /\ threshold <= 10) => Returned = DefaultResult
        /\ threshold > 10 => Returned = before
        /\ (threshold <= 0 /\ before # <<>>) =>
             /\ Len(Returned) = 1
             /\ Returned[1].id = before[1].id
             /\ Returned[1].topic = before[1].topic
             /\ Returned[1].messages = Flatten(before)

\* under threshold 0 sections of different topics are one section; under
\* threshold 1 the result is the one of the default
C27_Witness ==
    /\ pc = "merged"
    /\ threshold = 0
    /\ Len(before) = 3
    /\ before[1].topic # before[2].topic
    /\ Len(Returned) = 1
    /\ Len(DefaultResult) >= 2

----------------------------------------------------------------------------
(* Properties of StorageManager *)

\* the attempts that have failed in the call
Failures == call.lastError + 1

\* C29: _retryOperation calls the operation at most maxRetries times, resolves
\* with the first success without calling it again, and after maxRetries
\* failures in a row throws the last error; after failed attempt k (from 0,
\* k < maxRetries - 1) it waits retryDelay * 2^k, and after the last failure
\* it does not wait.
C29_RetryWithBackoff ==
    /\ call.invoked <= config.maxRetries
    /\ \A k \in 1..Len(call.waits) :
         /\ k <= config.maxRetries - 1
         /\ k <= Failures
         /\ call.waits[k] = config.retryDelay * 2 ^ (k - 1)
    /\ call.retry = "pending" =>
         /\ call.invoked = Failures
         /\ pc = "backoff" => Len(call.waits) = Failures
    /\ call.retry = "resolved" =>
         /\ call.invoked = Failures + 1
         /\ Len(call.waits) = Failures
    /\ call.retry = "rejected" =>
         /\ call.invoked = config.maxRetries
         /\ Failures = config.maxRetries
         /\ call.thrown = call.lastError
         /\ Len(call.waits) = IF config.maxRetries = 0 THEN 0
                              ELSE config.maxRetries - 1

\* three attempts have failed, with waits of 100 and 200 ms and none after
\* the third
C29_Witness ==
    /\ pc = "ready"
    /\ call.op = "set"
    /\ call.retry = "rejected"
    /\ call.outcome = "thrown"
    /\ config.maxRetries = DefaultConfig.maxRetries
    /\ call.invoked = DefaultConfig.maxRetries
    /\ call.waits = << DefaultConfig.retryDelay, 2 * DefaultConfig.retryDelay >>
    /\ call.thrown = DefaultConfig.maxRetries - 1

\* set has written its items to the in-memory storage and, with caching, to
\* the cache before the first attempt, and they stay there when it throws
WrittenFirst ==
    (call.op = "set" /\ call.outcome \in { "pending", "thrown" }) =>
        \A k \in DOMAIN call.arg :
            /\ inMemoryStorage[k] = call.arg[k]
            /\ config.enableCache => memoryCache[k].value = call.arg[k]

\* a get of the keys of the set that has thrown just before has returned
ReadAfterFailedSet ==
    /\ pc = "ready"
    /\ call.op = "get"
    /\ call.outcome = "returned"
    /\ call.previous # << >>
    /\ call.previous[1].op = "set"
    /\ call.previous[1].outcome = "thrown"
    /\ call.arg = DOMAIN call.previous[1].arg

\* C30 read literally: set writes to the in-memory storage and the cache
\* before the persistent write; when that fails on every retry set throws
\* without rolling back, and a following get of those keys returns the
\* values that were not persisted.
C30_UnsavedValuesRead ==
    /\ WrittenFirst
    /\ ReadAfterFailedSet => call.result = call.previous[1].arg

\* C30, with the reading told apart: the following get returns the values
\* that were not persisted when the cache answers it or when its own read
\* fails on every retry; when its read succeeds it returns what
\* chrome.storage holds.
C30_UnsavedValuesReadFromMemory ==
    /\ WrittenFirst
    /\ ReadAfterFailedSet =>
         /\ call.retry \in { "none", "rejected" } =>
              call.result = call.previous[1].arg
         /\ call.retry = "resolved" => call.result = Pick(chromeStorage, call.arg)

\* the cache has answered with a value chrome.storage does not hold
C30_Witness ==
    /\ ReadAfterFailedSet
    /\ call.retry = "none"
    /\ call.result = call.previous[1].arg
    /\ \A k \in call.arg : chromeStorage[k] = Absent

====
